---- MODULE Spec2Model ----
(***************************************************************************)
(* A model of the closed-frequent-itemset miner of src/src/carpenter_      *)
(* algorithm.py (class CARPENTER).                                         *)
(*                                                                         *)
(* Item labels are strings in the code; the only thing the code does with  *)
(* a label is compare it (dict lookup, set membership, sorted()).  A label *)
(* is modelled by its rank in the lexicographic order of the labels:       *)
(* 1 = "A", 2 = "B", 3 = "C".                                              *)
(*                                                                         *)
(* The depth-first search of _mine_closed_recursive is modelled with an    *)
(* explicit stack of frames, one frame per active call.  Indices are       *)
(* 1-based here and 0-based in the code.                                   *)
(***************************************************************************)
EXTENDS Integers, Sequences, FiniteSets, TLC

VARIABLES
    minsup,              \* self.minsup, as a fraction <<numerator, denominator>>
    use_percentage,      \* self.use_percentage
    transactions,        \* argument `transactions`; <<>> stands for None and for []
    has_matrix,          \* TRUE iff the arguments `matrix` and `item_list` are given
    arg_matrix,          \* argument `matrix` (rows of 0/1), <<>> when not given
    arg_item_list,       \* argument `item_list`, <<>> when not given
    set_order,           \* iteration order of Python sets in this run
    matrix,              \* local `matrix` of mine_patterns once it is settled
    item_list,           \* local `item_list` of mine_patterns once it is settled
    total_transactions,  \* self.total_transactions
    min_support_count,   \* self.min_support_count
    frequent_items,      \* self.frequent_items
    closed_patterns,     \* self.closed_patterns
    stack,               \* active calls of _mine_closed_recursive, innermost last
    pc,                  \* "call", "mining", "done" (returned), "raised"
    returned,            \* the list mine_patterns returned
    run,                 \* 1 for the first run, 2 for the repeated run
    first_result,        \* what the first run returned (kept for the repeated run)
    visited,             \* the itemsets the search of this call has built, in order
    ld_transactions,     \* DataLoader.transactions
    ld_items,            \* DataLoader.items
    ld_num_transactions, \* DataLoader.num_transactions
    ld_returned,         \* what the last DataLoader method returned
    ld_last              \* the last DataLoader call: its name, arguments,
                         \* what it read and the loader's transactions
                         \* before it

vars == <<minsup, use_percentage, transactions, has_matrix, arg_matrix,
          arg_item_list, set_order, matrix, item_list, total_transactions,
          min_support_count, frequent_items, closed_patterns, stack, pc,
          returned, run, first_result, visited, ld_transactions, ld_items,
          ld_num_transactions, ld_returned, ld_last>>

config == <<minsup, use_percentage>>
args == <<transactions, has_matrix, arg_matrix, arg_item_list>>
instance == <<total_transactions, min_support_count, frequent_items, closed_patterns>>
locals == <<matrix, item_list>>
history == <<run, first_result>>
loader == <<ld_transactions, ld_items, ld_num_transactions, ld_returned, ld_last>>
miner == <<minsup, use_percentage, transactions, has_matrix, arg_matrix,
           arg_item_list, set_order, matrix, item_list, total_transactions,
           min_support_count, frequent_items, closed_patterns, stack, pc,
           returned, run, first_result, visited>>

----------------------------------------------------------------------------
(* Bounds and input sets *)

MaxTrans == 3        \* longest transaction list / most matrix rows in Spec
DetMaxTrans == 2     \* longest transaction list in SpecDet

Items == {1, 2, 3}   \* ranks of the labels "A", "B", "C"

\* minsup values tried with use_percentage = True: 0.5 (the value of
\* tests/test_carpenter_algorithm.py), 1.0 and the out-of-range 1.5 (all
\* exact in binary floating point).
PercentMinsups == {<<2, 4>>, <<4, 4>>, <<6, 4>>}
\* minsup values tried with use_percentage = False: 0 (out of range), 1, 2.
AbsoluteMinsups == {<<0, 1>>, <<1, 1>>, <<2, 1>>}

Configs == ({TRUE} \X PercentMinsups) \cup ({FALSE} \X AbsoluteMinsups)

SeqsUpTo(S, n) == UNION {[1..k -> S] : k \in 0..n}

Identity == [j \in 1..Cardinality(Items) |-> j]
Reverse == [j \in 1..Cardinality(Items) |-> Cardinality(Items) + 1 - j]
Orders == {o \in [1..Cardinality(Items) -> Items] :
              \A a, b \in 1..Cardinality(Items) : a # b => o[a] # o[b]}

\* All binary matrices with at most n rows and at most Cardinality(Items)
\* columns, as <<matrix, item_list>> with item_list = the first k labels.
MatrixInputs(n) ==
    UNION {UNION {{<<m, [j \in 1..k |-> j]>> : m \in [1..r -> [1..k -> {0, 1}]]} :
                      k \in 0..Cardinality(Items)} : r \in 0..n}

----------------------------------------------------------------------------
(* Helpers standing for Python and numpy built-ins *)

Range(s) == {s[j] : j \in DOMAIN s}

RECURSIVE SumSeq(_)
SumSeq(s) == IF s = <<>> THEN 0 ELSE s[1] + SumSeq(Tail(s))

Front(s) == SubSeq(s, 1, Len(s) - 1)

\* list(S): the elements of the set S in the run's set iteration order.
ListOf(S, order) == SelectSeq(order, LAMBDA x : x \in S)

RECURSIVE InsertAsc(_, _)
InsertAsc(x, s) ==
    IF s = <<>> THEN <<x>>
    ELSE IF x < s[1] THEN <<x>> \o s
    ELSE <<s[1]>> \o InsertAsc(x, Tail(s))

\* sorted(list) on labels.
RECURSIVE SortedList(_)
SortedList(s) ==
    IF s = <<>> THEN <<>> ELSE InsertAsc(s[Len(s)], SortedList(Front(s)))


----------------------------------------------------------------------------
(* The code of carpenter_algorithm.py *)

\* _transactions_to_matrix, line 133: sorted(list(set().union(*transactions))).
\* As AllItems without sorted(): the items in set iteration order.
AllItemsUnsorted(trans, order) == ListOf(UNION Range(trans), order)

AllItems(trans, order) == SortedList(ListOf(UNION Range(trans), order))

\* line 134: item_to_idx = {item: idx for idx, item in enumerate(all_items)};
\* with a repeated label the last index wins.
ItemToIdx(list) ==
    [x \in Range(list) |->
        CHOOSE j \in DOMAIN list :
            list[j] = x /\ \A l \in DOMAIN list : list[l] = x => l <= j]

\* _transactions_to_matrix, lines 133-143: cell [t][idx] is set to 1 by the
\* inner loop iff some item of transaction t has index idx.
TransactionsToMatrix(trans, order) ==
    LET all_items == AllItems(trans, order)
        item_to_idx == ItemToIdx(all_items)
    IN  <<[t \in 1..Len(trans) |->
              [idx \in 1..Len(all_items) |->
                  IF \E item \in trans[t] : item_to_idx[item] = idx
                  THEN 1 ELSE 0]],
          all_items>>

\* As Transposed, taking the columns from last to first.
TransposedBackwards(m, list) ==
    [idx \in 1..Len(list) |-> [t \in 1..Len(m) |-> m[t][Len(list) + 1 - idx]]]

\* matrix.T (line 107); the number of columns is that of item_list.
Transposed(m, list) ==
    [idx \in 1..Len(list) |-> [t \in 1..Len(m) |-> m[t][idx]]]

\* bool(matrix) as evaluated by `not matrix` (line 86) on a numpy array:
\* an array of more than one element raises ValueError, an array of one
\* element has the truth value of that element, and an empty array is
\* False in numpy < 2.2 and raises in numpy >= 2.2.
MatrixTruth(m, list) ==
    LET size == Len(m) * Len(list) IN
    IF size > 1 THEN {"error"}
    ELSE IF size = 1 THEN (IF m[1][1] # 0 THEN {"true"} ELSE {"false"})
    ELSE {"false", "error"}

\* As MinSupportCount, truncating where the code rounds up.
MinSupportCountFloor(ms, pct, n) ==
    IF pct THEN (ms[1] * n) \div ms[2]
    ELSE ms[1] \div ms[2]

\* lines 96-99: int(np.ceil(self.minsup * n)) or int(self.minsup).
MinSupportCount(ms, pct, n) ==
    IF pct THEN (ms[1] * n + ms[2] - 1) \div ms[2]
    ELSE ms[1] \div ms[2]

\* As CalculateSupport, joining the rows with | where the code uses &.
CalculateSupportAny(pattern, tm, list) ==
    IF pattern \cap Range(list) = {} THEN 0
    ELSE LET item_to_idx == ItemToIdx(list)
             pattern_indices == {item_to_idx[item] : item \in pattern \cap Range(list)}
             n == Len(tm[CHOOSE idx \in pattern_indices : TRUE])
         IN  SumSeq([t \in 1..n |->
                        IF \E idx \in pattern_indices : tm[idx][t] = 1
                        THEN 1 ELSE 0])

\* lines 300-319.
CalculateSupport(pattern, tm, list) ==
    IF pattern = {} THEN 0
    ELSE LET item_to_idx == ItemToIdx(list)
             pattern_indices == {item_to_idx[item] : item \in pattern \cap Range(list)}
         IN  IF pattern_indices = {} THEN 0
             ELSE LET n == Len(tm[CHOOSE idx \in pattern_indices : TRUE])
                      result == [t \in 1..n |->
                                    IF \A idx \in pattern_indices : tm[idx][t] = 1
                                    THEN 1 ELSE 0]
                  IN  SumSeq(result)

\* As IsClosed, trying only the items that follow the pattern's last item.
IsClosedForwardOnly(pattern, tm, list) ==
    \A j \in DOMAIN list :
        (list[j] \notin pattern /\ \A l \in DOMAIN list : list[l] \in pattern => l < j) =>
            CalculateSupport(pattern \cup {list[j]}, tm, list)
                # CalculateSupport(pattern, tm, list)

\* As IsClosed, looping over item_list[1:] (the first item is never tried).
IsClosedSkipFirst(pattern, tm, list) ==
    \A j \in DOMAIN list :
        (j > 1 /\ list[j] \notin pattern) =>
            CalculateSupport(pattern \cup {list[j]}, tm, list)
                # CalculateSupport(pattern, tm, list)

\* lines 343-354.
IsClosed(pattern, tm, list) ==
    LET pattern_support == CalculateSupport(pattern, tm, list) IN
    \A j \in DOMAIN list :
        list[j] \notin pattern =>
            CalculateSupport(pattern \cup {list[j]}, tm, list) # pattern_support

\* As IsFrequent, with > where the code has >=.
IsFrequentStrict(support, count) == support > count

\* line 256 (and line 165): the frequency test.
IsFrequentOffByOne(support, count) == support >= count - 1

IsFrequent(support, count) == support >= count

\* As InsertBySupportDesc, going before an element of equal support.
RECURSIVE InsertBySupportDescUnstable(_, _)
InsertBySupportDescUnstable(x, s) ==
    IF s = <<>> THEN <<x>>
    ELSE IF x[2] >= s[1][2] THEN <<x>> \o s
    ELSE <<s[1]>> \o InsertBySupportDescUnstable(x, Tail(s))

RECURSIVE InsertBySupportDesc(_, _)
InsertBySupportDesc(x, s) ==
    IF s = <<>> THEN <<x>>
    ELSE IF x[2] > s[1][2] THEN <<x>> \o s
    ELSE <<s[1]>> \o InsertBySupportDesc(x, Tail(s))

\* line 169: frequent.sort(key=lambda x: x[1], reverse=True), a stable sort.
RECURSIVE SortBySupportDesc(_)
SortBySupportDesc(s) ==
    IF s = <<>> THEN <<>>
    ELSE InsertBySupportDesc(s[Len(s)], SortBySupportDesc(Front(s)))

\* _find_frequent_items, lines 161-171.
FindFrequentItems(m, list, count) ==
    LET all == [idx \in 1..Len(list) |->
                   <<list[idx], SumSeq([t \in 1..Len(m) |-> m[t][idx]])>>]
    IN  SortBySupportDesc(SelectSeq(all, LAMBDA e : IsFrequent(e[2], count)))

\* lines 259-263: the dictionary appended for a closed pattern.
PatternEntry(pattern, support) ==
    [pattern |-> pattern, support |-> support, length |-> Cardinality(pattern)]

----------------------------------------------------------------------------
(* Inputs *)

\* The transaction list a binary matrix encodes.
Decode(m, list) ==
    [t \in 1..Len(m) |-> {list[j] : j \in {l \in 1..Len(list) : m[t][l] = 1}}]

\* mine_patterns(transactions=...)
ListInputs(n) ==
    {<<t, FALSE, <<>>, <<>>>> : t \in SeqsUpTo(SUBSET Items, n)}
\* mine_patterns(matrix=..., item_list=...)
MatrixOnlyInputs(n) ==
    {<<<<>>, TRUE, mi[1], mi[2]>> : mi \in MatrixInputs(n)}
\* mine_patterns(transactions=..., matrix=..., item_list=...) for the same data
BothInputs(n) ==
    {<<Decode(mi[1], mi[2]), TRUE, mi[1], mi[2]>> :
        mi \in {x \in MatrixInputs(n) : Len(x[1]) >= 1}}

\* __init__, lines 52-58, and the start of a call.
Fresh ==
    /\ closed_patterns = <<>>
    /\ frequent_items = <<>>
    /\ total_transactions = 0
    /\ min_support_count = 0
    /\ matrix = <<>>
    /\ item_list = <<>>
    /\ stack = <<>>
    /\ returned = <<>>
    /\ visited = <<>>
    /\ pc = "call"

\* DataLoader.__init__, lines 43-46 of data_preprocessing.py.
LoaderFresh ==
    /\ ld_transactions = <<>>
    /\ ld_items = {}
    /\ ld_num_transactions = 0
    /\ ld_returned = <<>>
    /\ ld_last = [op |-> "none", loaded |-> <<>>, remove_duplicates |-> FALSE,
                  min_transaction_length |-> 0, before |-> <<>>]

Init ==
    /\ \E a \in ListInputs(MaxTrans) \cup MatrixOnlyInputs(MaxTrans)
                    \cup BothInputs(MaxTrans) :
          /\ transactions = a[1]
          /\ has_matrix = a[2]
          /\ arg_matrix = a[3]
          /\ arg_item_list = a[4]
          /\ set_order \in IF a[2] THEN {Identity} ELSE {Identity, Reverse}
    /\ \E c \in Configs : use_percentage = c[1] /\ minsup = c[2]
    /\ Fresh
    /\ LoaderFresh
    /\ run = 1
    /\ first_result = <<>>

----------------------------------------------------------------------------
(* mine_patterns *)

\* Lines 85-87: what `matrix, item_list` are after the conversion step, as
\* the set of possible outcomes <<kind, matrix, item_list>>; kind is "ok",
\* "none" (matrix is None) or "error" (bool(matrix) raised).
SettledInputs ==
    IF transactions = <<>>
    THEN IF has_matrix THEN {<<"ok", arg_matrix, arg_item_list>>}
         ELSE {<<"none", <<>>, <<>>>>}
    ELSE IF ~has_matrix
         THEN {<<"ok", TransactionsToMatrix(transactions, set_order)[1],
                       TransactionsToMatrix(transactions, set_order)[2]>>}
         ELSE {IF truth = "error" THEN <<"error", <<>>, <<>>>>
               ELSE IF truth = "true" THEN <<"ok", arg_matrix, arg_item_list>>
               ELSE <<"ok", TransactionsToMatrix(transactions, set_order)[1],
                            TransactionsToMatrix(transactions, set_order)[2]>> :
                  truth \in MatrixTruth(arg_matrix, arg_item_list)}

\* Line 86 raises ValueError: the call ends without a return value.
StartRaise ==
    /\ pc = "call"
    /\ \E o \in SettledInputs : o[1] = "error"
    /\ pc' = "raised"
    /\ UNCHANGED <<config, args, set_order, locals, instance, stack, returned,
                   history, visited, loader>>

\* Lines 89-91: no valid input, return [].
StartNoInput ==
    /\ pc = "call"
    /\ \E o \in SettledInputs : o[1] = "none"
    /\ returned' = <<>>
    /\ pc' = "done"
    /\ UNCHANGED <<config, args, set_order, locals, instance, stack, history,
                   visited, loader>>

\* Lines 93-118 up to the first call of _mine_closed_recursive (through
\* _mine_closed_patterns, whose first loop, lines 205-213, fills a list
\* that line 221 overwrites).
StartMine ==
    /\ pc = "call"
    /\ \E o \in SettledInputs :
          /\ o[1] = "ok"
          /\ matrix' = o[2]
          /\ item_list' = o[3]
          /\ total_transactions' = Len(o[2])
          /\ min_support_count' = MinSupportCount(minsup, use_percentage, Len(o[2]))
          /\ frequent_items' =
                FindFrequentItems(o[2], o[3],
                    MinSupportCount(minsup, use_percentage, Len(o[2])))
    /\ stack' = <<[prefix |-> {}, i |-> 1, closed |-> <<>>]>>
    /\ visited' = <<>>
    /\ pc' = "mining"
    /\ UNCHANGED <<config, args, set_order, closed_patterns, returned, history, loader>>

----------------------------------------------------------------------------
(* _mine_closed_recursive, lines 243-276 *)

Top == stack[Len(stack)]
transposed_matrix == Transposed(matrix, item_list)

\* lines 250-254 for the current loop index of the innermost call
NewPattern == Top.prefix \cup {frequent_items[Top.i][1]}
NewSupport == CalculateSupport(NewPattern, transposed_matrix, item_list)

\* As ChildStart, starting the child call at the item just added.
ChildStartSame(i) == i

\* line 272: the child call starts after the item just added
ChildStart(i) == i + 1

\* Line 256 false: the loop moves to the next item.
Skip ==
    /\ pc = "mining"
    /\ Top.i <= Len(frequent_items)
    /\ ~IsFrequent(NewSupport, min_support_count)
    /\ stack' = [stack EXCEPT ![Len(stack)].i = @ + 1]
    /\ visited' = Append(visited, NewPattern)
    /\ UNCHANGED <<config, args, set_order, locals, instance, pc, returned, history, loader>>

\* Lines 256-273: the pattern is frequent; it is appended if closed and
\* the search recurses into it.
Extend ==
    /\ pc = "mining"
    /\ Top.i <= Len(frequent_items)
    /\ IsFrequent(NewSupport, min_support_count)
    /\ stack' =
          Append([stack EXCEPT ![Len(stack)].closed =
                      IF IsClosed(NewPattern, transposed_matrix, item_list)
                      THEN Append(@, PatternEntry(NewPattern, NewSupport))
                      ELSE @],
                 [prefix |-> NewPattern, i |-> ChildStart(Top.i), closed |-> <<>>])
    /\ visited' = Append(visited, NewPattern)
    /\ UNCHANGED <<config, args, set_order, locals, instance, pc, returned, history, loader>>

\* Lines 276 and 274: an inner call returns its list, the caller extends
\* its own list with it and moves to the next item.
Return ==
    /\ pc = "mining"
    /\ Len(stack) > 1
    /\ Top.i > Len(frequent_items)
    /\ stack' = [Front(stack) EXCEPT ![Len(stack) - 1] =
                    [@ EXCEPT !.closed = @ \o Top.closed, !.i = @ + 1]]
    /\ UNCHANGED <<config, args, set_order, locals, instance, pc, returned, history,
                   visited, loader>>

\* Line 276 of the outermost call, then lines 114-124: the list becomes
\* self.closed_patterns and is returned.
Finish ==
    /\ pc = "mining"
    /\ Len(stack) = 1
    /\ Top.i > Len(frequent_items)
    /\ closed_patterns' = Top.closed
    /\ returned' = Top.closed
    /\ stack' = <<>>
    /\ pc' = "done"
    /\ UNCHANGED <<config, args, set_order, locals, total_transactions,
                   min_support_count, frequent_items, history, visited, loader>>

Next ==
    \/ StartRaise
    \/ StartNoInput
    \/ StartMine
    \/ Skip
    \/ Extend
    \/ Return
    \/ Finish

Spec == Init /\ [][Next]_vars

----------------------------------------------------------------------------
(* The repeated run: the same call on a new instance with the same
   configuration, under any set iteration order. *)

Rerun ==
    /\ pc = "done"
    /\ run = 1
    /\ run' = 2
    /\ first_result' = returned
    /\ set_order' \in Orders
    /\ closed_patterns' = <<>>
    /\ frequent_items' = <<>>
    /\ total_transactions' = 0
    /\ min_support_count' = 0
    /\ matrix' = <<>>
    /\ item_list' = <<>>
    /\ stack' = <<>>
    /\ returned' = <<>>
    /\ visited' = <<>>
    /\ pc' = "call"
    /\ UNCHANGED <<config, args, loader>>

InitDet ==
    /\ \E a \in ListInputs(DetMaxTrans) :
          /\ transactions = a[1]
          /\ has_matrix = a[2]
          /\ arg_matrix = a[3]
          /\ arg_item_list = a[4]
    /\ \E c \in Configs : use_percentage = c[1] /\ minsup = c[2]
    /\ set_order = Identity
    /\ Fresh
    /\ LoaderFresh
    /\ run = 1
    /\ first_result = <<>>

NextDet ==
    \/ StartNoInput
    \/ StartMine
    \/ Skip
    \/ Extend
    \/ Return
    \/ Finish
    \/ Rerun

SpecDet == InitDet /\ [][NextDet]_vars

----------------------------------------------------------------------------
(* Reference definitions, computed on the input alone *)

\* The transactions the call was given, in either input form.
InputTransactions ==
    IF has_matrix THEN Decode(arg_matrix, arg_item_list) ELSE transactions

NumTransactions == Len(InputTransactions)

\* Number of input transactions that contain X.
BruteSupport(X) ==
    Cardinality({t \in DOMAIN InputTransactions : X \subseteq InputTransactions[t]})

\* minsup is a fraction in (0,1] or an integer >= 1.
ValidMinsup ==
    IF use_percentage THEN 0 < minsup[1] /\ minsup[1] <= minsup[2]
    ELSE minsup[2] = 1 /\ minsup[1] >= 1

Max(a, b) == IF a >= b THEN a ELSE b

\* ceil(num/den * n) for a non-negative fraction
CeilTimes(ms, n) ==
    CHOOSE c \in 0..(ms[1] * n + 1) :
        c * ms[2] >= ms[1] * n /\ (c - 1) * ms[2] < ms[1] * n

\* The minimum-support count as the specification defines it.
SpecMinsupCount ==
    IF use_percentage THEN Max(1, CeilTimes(minsup, NumTransactions))
    ELSE minsup[1]

BruteClosedFrequent ==
    {X \in (SUBSET Items) \ {{}} :
        /\ BruteSupport(X) >= SpecMinsupCount
        /\ \A Y \in SUBSET Items :
              (X \subseteq Y /\ X # Y) => BruteSupport(Y) # BruteSupport(X)}

\* The call went past the input check (line 89).
Mined == pc \in {"mining", "done"} /\ (has_matrix \/ transactions # <<>>)

RECURSIVE Concat(_)
Concat(ss) == IF ss = <<>> THEN <<>> ELSE ss[1] \o Concat(Tail(ss))

\* Every entry the search holds so far: the lists of the active calls,
\* outermost first, then the stored and returned lists.
Accumulated ==
    Range(Concat([d \in DOMAIN stack |-> stack[d].closed]))
        \cup Range(closed_patterns) \cup Range(returned)

----------------------------------------------------------------------------
(* Properties *)

\* C1: every returned pattern's 'support' equals the number of input
\* transactions that contain the pattern's itemset (brute-force count).
SupportCorrect ==
    pc = "done" =>
        \A j \in DOMAIN returned :
            returned[j].support = BruteSupport(returned[j].pattern)

\* A returned pattern of two or more items held by some but not all of
\* the transactions.
SupportCorrectWitness ==
    /\ pc = "done"
    /\ \E j \in DOMAIN returned :
          /\ Cardinality(returned[j].pattern) >= 2
          /\ returned[j].support >= 2
          /\ returned[j].support < NumTransactions

\* C2: for a valid minsup the itemsets returned are exactly the non-empty
\* itemsets with support >= minsup_count and no proper superset of equal
\* support, and the result is non-empty when some item meets the
\* threshold.  (Inputs with at least one transaction, and the empty
\* transaction list.)
AllClosedFound ==
    (pc = "done" /\ ValidMinsup /\ (~has_matrix \/ NumTransactions >= 1)) =>
        /\ {returned[j].pattern : j \in DOMAIN returned} = BruteClosedFrequent
        /\ (\E x \in Items : BruteSupport({x}) >= SpecMinsupCount) => returned # <<>>

\* A run that returns several closed itemsets, one of them at exactly the
\* threshold, while some frequent itemset is not closed.
AllClosedFoundWitness ==
    /\ pc = "done"
    /\ ValidMinsup
    /\ ~has_matrix
    /\ Len(returned) >= 2
    /\ \E j \in DOMAIN returned : returned[j].support = SpecMinsupCount
    /\ \E X \in (SUBSET Items) \ {{}} :
          BruteSupport(X) >= SpecMinsupCount /\ X \notin BruteClosedFrequent

\* C3: for every returned itemset, no item of the database outside the
\* itemset (frequent or not) can be added without changing its support.
ClosureProperty ==
    pc = "done" =>
        \A j \in DOMAIN returned :
            \A x \in Range(item_list) \ returned[j].pattern :
                BruteSupport(returned[j].pattern \cup {x})
                    # BruteSupport(returned[j].pattern)

\* A returned itemset with an infrequent item and a frequent item outside it.
ClosurePropertyWitness ==
    /\ pc = "done"
    /\ \E j \in DOMAIN returned :
          \E x, y \in Range(item_list) \ returned[j].pattern :
              /\ BruteSupport({x}) < min_support_count
              /\ BruteSupport({y}) >= min_support_count

\* C4: at every point of the search and at its end, two held itemsets with
\* identical support are never a proper subset of one another.
Antichain ==
    \A p, q \in Accumulated :
        p.support = q.support =>
            ~(p.pattern \subseteq q.pattern /\ p.pattern # q.pattern)

\* The search is under way and holds two itemsets of equal support, and
\* two itemsets one inside the other.
AntichainWitness ==
    /\ pc = "mining"
    /\ \E p, q \in Accumulated : p # q /\ p.support = q.support
    /\ \E p, q \in Accumulated : p.pattern \subseteq q.pattern /\ p.pattern # q.pattern

\* C5: for a fractional minsup in (0,1] the count used is
\* max(1, ceil(minsup*n)), for an absolute minsup it is the given integer,
\* and every returned support is >= that count.
ThresholdClaim ==
    (Mined /\ ValidMinsup) =>
        /\ min_support_count = SpecMinsupCount
        /\ \A j \in DOMAIN returned : returned[j].support >= SpecMinsupCount

\* C6: a bad minsup fails the call before any database construction or
\* search; no pattern list is returned.
ConfigErrorClaim == ~ValidMinsup => pc \notin {"mining", "done"}

\* C7: with a valid minsup, a call on an empty transaction list, or with a
\* threshold no item meets, raises nothing, gathers no pattern, can always
\* take its next step until it returns, and returns the empty list.
NoItemMeets == \A x \in Items : BruteSupport({x}) < SpecMinsupCount

EmptyResult ==
    (ValidMinsup /\ ~has_matrix /\ (transactions = <<>> \/ NoItemMeets)) =>
        /\ pc # "raised"
        /\ Accumulated = {}
        /\ pc = "done" => returned = <<>>
        /\ pc = "call" => \E o \in SettledInputs : o[1] \in {"ok", "none"}
        /\ pc = "mining" =>
              ENABLED Skip \/ ENABLED Extend \/ ENABLED Return \/ ENABLED Finish

\* A call on transactions that have items, none of which meets the
\* threshold, has returned.
EmptyResultWitness ==
    /\ pc = "done"
    /\ ValidMinsup
    /\ ~has_matrix
    /\ UNION Range(transactions) # {}
    /\ NoItemMeets

\* The order of section 4.5: size descending, then support descending,
\* then sorted labels lexicographically ascending.  For two different
\* sets of equal size the lexicographically smaller sorted list is the
\* one that holds the least item not common to both.
LeastOf(S) == CHOOSE x \in S : \A y \in S : x <= y
LabelsLeq(X, Y) ==
    X = Y \/ LeastOf((X \ Y) \cup (Y \ X)) \in X
OrderedBefore(p, q) ==
    \/ p.length > q.length
    \/ p.length = q.length /\ p.support > q.support
    \/ p.length = q.length /\ p.support = q.support /\ LabelsLeq(p.pattern, q.pattern)

\* C8: for every input with a valid minsup the returned list is ordered
\* by size descending, then support descending, then sorted labels
\* ascending.
OrderClaim ==
    (pc = "done" /\ ValidMinsup) =>
        \A j \in 1..(Len(returned) - 1) : OrderedBefore(returned[j], returned[j + 1])

\* C9: a repeated run with the same transactions and configuration
\* returns the same list, element by element, whatever the iteration
\* order of the run's sets.
Determinism == (run = 2 /\ pc = "done") => returned = first_result

\* The repeated run iterated its sets in the opposite order and returned
\* two patterns of equal support.
DeterminismWitness ==
    /\ run = 2
    /\ pc = "done"
    /\ set_order = Reverse
    /\ \E j, l \in DOMAIN returned : j # l /\ returned[j].support = returned[l].support

\* Scenario A: transactions [{A,B},{A,B},{A,B,C}], absolute minsup 1.
ScenarioA ==
    /\ ~has_matrix
    /\ transactions = <<{1, 2}, {1, 2}, {1, 2, 3}>>
    /\ ~use_percentage
    /\ minsup = <<1, 1>>

\* C10: Scenario A returns exactly {A,B} with support 3 and {A,B,C} with
\* support 1, and no other itemset is ever emitted.
ScenarioAResult ==
    ScenarioA =>
        /\ {<<e.pattern, e.support>> : e \in Accumulated}
              \subseteq {<<{1, 2}, 3>>, <<{1, 2, 3}, 1>>}
        /\ pc = "done" =>
              /\ Len(returned) = 2
              /\ {<<returned[j].pattern, returned[j].support>> : j \in DOMAIN returned}
                    = {<<{1, 2}, 3>>, <<{1, 2, 3}, 1>>}

ScenarioAWitness == ScenarioA /\ pc = "done" /\ returned # <<>>


-----------------------------------------------------------------------------
\* The caps a caller may want to set.  __init__ (lines 41-58) takes only minsup
\* and use_percentage, and neither mine_patterns nor _mine_closed_recursive
\* counts the patterns found, so no cap reaches the search.
Caps == {1, 2}

\* C11: when a max_patterns cap is configured, the number of patterns
\* returned never exceeds it.
CapClaim == \A cap \in Caps : pc = "done" => Len(returned) <= cap

-----------------------------------------------------------------------------
(* A second call of mine_patterns on the same instance *)

CallsMaxTrans == 2   \* longest transaction list in SpecCalls
CallItems == {1, 2}  \* the labels "A", "B"

CallInputs(n) ==
    {<<t, FALSE, <<>>, <<>>>> : t \in SeqsUpTo(SUBSET CallItems, n)}

\* The caller invokes mine_patterns again on the instance it already used:
\* new arguments, new locals, and the attributes __init__ set (lines 52-58)
\* left as the earlier call left them.
CallAgain ==
    /\ pc = "done"
    /\ run = 1
    /\ run' = 2
    /\ first_result' = returned
    /\ \E a \in CallInputs(CallsMaxTrans) :
          /\ transactions' = a[1]
          /\ has_matrix' = a[2]
          /\ arg_matrix' = a[3]
          /\ arg_item_list' = a[4]
    /\ matrix' = <<>>
    /\ item_list' = <<>>
    /\ stack' = <<>>
    /\ returned' = <<>>
    /\ visited' = <<>>
    /\ pc' = "call"
    /\ UNCHANGED <<config, set_order, instance, loader>>

InitCalls ==
    /\ \E a \in CallInputs(CallsMaxTrans) :
          /\ transactions = a[1]
          /\ has_matrix = a[2]
          /\ arg_matrix = a[3]
          /\ arg_item_list = a[4]
    /\ \E c \in Configs : use_percentage = c[1] /\ minsup = c[2]
    /\ set_order = Identity
    /\ Fresh
    /\ LoaderFresh
    /\ run = 1
    /\ first_result = <<>>

NextCalls ==
    \/ StartNoInput
    \/ StartMine
    \/ Skip
    \/ Extend
    \/ Return
    \/ Finish
    \/ CallAgain

SpecCalls == InitCalls /\ [][NextCalls]_vars

\* C12: on one instance, after an earlier call, the instance state is reset
\* at the start of the call: once the later call has returned, the patterns
\* and the transaction count the instance holds are those of that call, as
\* they are on a fresh instance.
PureCallClaim ==
    (run = 2 /\ pc = "done") =>
        /\ closed_patterns = returned
        /\ total_transactions = NumTransactions

\* C13: every entry returned has a non-empty itemset of item labels and an
\* integer support s with minsup_count <= s <= n, n the number of input
\* transactions and minsup_count the count the call computed (lines 95-99).
OutputContract ==
    pc = "done" =>
        \A j \in DOMAIN returned :
            /\ returned[j].pattern # {}
            /\ returned[j].pattern \subseteq Range(item_list)
            /\ returned[j].support \in Nat
            /\ min_support_count <= returned[j].support
            /\ returned[j].support <= NumTransactions

\* A call with a threshold of at least 1 returned one pattern at exactly the
\* threshold and one held by every transaction.
OutputContractWitness ==
    /\ pc = "done"
    /\ min_support_count >= 1
    /\ min_support_count < NumTransactions
    /\ \E j \in DOMAIN returned : returned[j].support = min_support_count
    /\ \E j \in DOMAIN returned : returned[j].support = NumTransactions

\* C14: for any two itemsets A, B over the labels of the database with A a
\* proper subset of B, the support the engine computes for A is at least
\* the support it computes for B.
MonotoneClaim ==
    pc \in {"mining", "done"} =>
        \A B \in SUBSET Range(item_list) :
            \A A \in SUBSET B :
                A # B =>
                    CalculateSupport(A, transposed_matrix, item_list)
                        >= CalculateSupport(B, transposed_matrix, item_list)

-----------------------------------------------------------------------------
(* DataLoader, data_preprocessing.py *)

MaxFileLines == 2    \* most lines in a file
MaxLoaded == 3       \* most transactions a loader holds

LoaderItems == {1, 2, 3}   \* the labels "A", "B", "C"

\* A line of the file after strip(), as the fields split(delimiter) gives;
\* <<>> is a blank line.
Lines == {<<>>, <<1>>, <<2>>, <<3, 2>>, <<1, 1>>}
Files == SeqsUpTo(Lines, MaxFileLines)

\* lines 76-81 for the first k lines of the file: a non-blank line becomes
\* the set of its fields.
RECURSIVE ParsedLines(_, _)
ParsedLines(file, k) ==
    IF k = 0 THEN <<>>
    ELSE IF file[k] = <<>> THEN ParsedLines(file, k - 1)
         ELSE Append(ParsedLines(file, k - 1), Range(file[k]))

\* The orders in which a set can be iterated.
IterationOrders(S) ==
    {f \in [1..Cardinality(S) -> S] :
        \A a, b \in 1..Cardinality(S) : a # b => f[a] # f[b]}

\* As RemoveDuplicates, keeping the list as it is.
KeepDuplicates(trans) == {trans}

\* line 130: the list built from set([frozenset(t) ...]), in the order the
\* set happens to iterate.
RemoveDuplicates(trans) == IterationOrders(Range(trans))

\* line 133
FilterByLength(trans, k) == SelectSeq(trans, LAMBDA t : Cardinality(t) >= k)

MinLengths == 0..Cardinality(LoaderItems)

LastCall(op, loaded, rd, k) ==
    [op |-> op, loaded |-> loaded, remove_duplicates |-> rd,
     min_transaction_length |-> k, before |-> ld_transactions]

\* load_dataset, lines 66-89: the file is read to its end.
LoadDataset ==
    /\ \E file \in Files :
          /\ Len(ld_transactions) + Len(file) <= MaxLoaded
          /\ ld_transactions' = ld_transactions \o ParsedLines(file, Len(file))
          /\ ld_items' = ld_items \cup UNION Range(ParsedLines(file, Len(file)))
          /\ ld_num_transactions' = Len(ld_transactions \o ParsedLines(file, Len(file)))
          /\ ld_returned' = ld_transactions \o ParsedLines(file, Len(file))
          /\ ld_last' = LastCall("load", ParsedLines(file, Len(file)), FALSE, 0)
    /\ UNCHANGED miner

\* load_dataset, lines 91-96: open() fails (k = 0) or reading fails after k
\* lines; what was appended stays, line 85 is not reached, [] is returned.
LoadFails ==
    /\ \E file \in Files :
          \E k \in 0..Len(file) :
              /\ Len(ld_transactions) + Len(file) <= MaxLoaded
              /\ ld_transactions' = ld_transactions \o ParsedLines(file, k)
              /\ ld_items' = ld_items \cup UNION Range(ParsedLines(file, k))
              /\ ld_last' = LastCall("load_failed", ParsedLines(file, k), FALSE, 0)
    /\ ld_returned' = <<>>
    /\ UNCHANGED <<ld_num_transactions, miner>>

\* preprocess_data, lines 119-138.
PreprocessData ==
    /\ \E rd \in BOOLEAN, k \in MinLengths :
          /\ ld_last' = LastCall("preprocess", <<>>, rd, k)
          /\ IF ld_transactions = <<>>
             THEN /\ ld_returned' = <<>>
                  /\ UNCHANGED ld_transactions
             ELSE \E processed \in IF rd THEN RemoveDuplicates(ld_transactions)
                                   ELSE {ld_transactions} :
                      /\ ld_transactions' = FilterByLength(processed, k)
                      /\ ld_returned' = FilterByLength(processed, k)
    /\ UNCHANGED <<ld_items, ld_num_transactions, miner>>

\* create_transaction_matrix, lines 159-175, for a loader that holds
\* transactions: sorted(list(self.items)) and the matrix filled from
\* self.transactions.
LoaderMatrix(trans, items, order) ==
    LET loader_item_list == SortedList(ListOf(items, order))
        item_to_idx == ItemToIdx(loader_item_list)
    IN  <<[trans_idx \in 1..Len(trans) |->
              [item_idx \in 1..Len(loader_item_list) |->
                  IF \E item \in trans[trans_idx] : item_to_idx[item] = item_idx
                  THEN 1 ELSE 0]],
          loader_item_list,
          [trans_idx \in 1..Len(trans) |-> trans_idx - 1]>>

\* create_transaction_matrix, lines 155-175; the loader is left as it is.
CreateTransactionMatrix ==
    /\ ld_last' = LastCall("matrix", <<>>, FALSE, 0)
    /\ IF ld_transactions = <<>>
       THEN ld_returned' = <<<<>>, <<>>, <<>>>>
       ELSE \E order \in {Identity, Reverse} :
               ld_returned' = LoaderMatrix(ld_transactions, ld_items, order)
    /\ UNCHANGED <<ld_transactions, ld_items, ld_num_transactions, miner>>

\* A new loader; the miner is constructed with its defaults and not called.
InitLoader ==
    /\ LoaderFresh
    /\ minsup = <<1, 20>>
    /\ use_percentage = TRUE
    /\ transactions = <<>>
    /\ has_matrix = FALSE
    /\ arg_matrix = <<>>
    /\ arg_item_list = <<>>
    /\ set_order = Identity
    /\ Fresh
    /\ run = 1
    /\ first_result = <<>>

NextLoader ==
    \/ LoadDataset
    \/ LoadFails
    \/ PreprocessData
    \/ CreateTransactionMatrix

SpecLoader == InitLoader /\ [][NextLoader]_vars

\* C15: preprocess_data with remove_duplicates=True and
\* min_transaction_length=k returns a list with no two equal transactions,
\* every transaction of at least k items, and whose transactions are
\* exactly the loaded transactions of length >= k.
PreprocessFilters ==
    (ld_last.op = "preprocess" /\ ld_last.remove_duplicates) =>
        /\ \A a, b \in DOMAIN ld_returned : a # b => ld_returned[a] # ld_returned[b]
        /\ \A a \in DOMAIN ld_returned :
              Cardinality(ld_returned[a]) >= ld_last.min_transaction_length
        /\ Range(ld_returned) =
              {t \in Range(ld_last.before) :
                  Cardinality(t) >= ld_last.min_transaction_length}

\* The call had a repeated transaction and a short one to drop, and
\* returned two or more transactions.
PreprocessFiltersWitness ==
    /\ ld_last.op = "preprocess"
    /\ ld_last.remove_duplicates
    /\ Len(ld_last.before) > Cardinality(Range(ld_last.before))
    /\ \E t \in Range(ld_last.before) : Cardinality(t) < ld_last.min_transaction_length
    /\ ld_returned # <<>>

-----------------------------------------------------------------------------
(* The order of the frequent items and of the search *)

IndexIn(list, x) == CHOOSE j \in DOMAIN list : list[j] = x

\* The itemsets of one item the search has built, in the order it built them.
VisitedSingles == SelectSeq(visited, LAMBDA X : Cardinality(X) = 1)

\* The search takes the items in the order of frequent_items: the outermost
\* loop has built the one-item sets of the first items of the list, in list
\* order, and every inner call extends its caller's prefix by the caller's
\* current item and loops over the items after it.
EnumeratesInListOrder ==
    /\ \A j \in DOMAIN VisitedSingles :
          j <= Len(frequent_items) /\ VisitedSingles[j] = {frequent_items[j][1]}
    /\ pc = "done" => Len(VisitedSingles) = Len(frequent_items)
    /\ \A d \in 2..Len(stack) :
          /\ stack[d].prefix =
                stack[d - 1].prefix \cup {frequent_items[stack[d - 1].i][1]}
          /\ stack[d].i > stack[d - 1].i

\* C16 as stated: the frequent-item list is sorted by ascending support,
\* then by ascending item label.
AscendingOrderClaim ==
    pc \in {"mining", "done"} =>
        \A j \in 1..(Len(frequent_items) - 1) :
            \/ frequent_items[j][2] < frequent_items[j + 1][2]
            \/ /\ frequent_items[j][2] = frequent_items[j + 1][2]
               /\ frequent_items[j][1] < frequent_items[j + 1][1]

\* C16: the frequent-item list is sorted by descending support, items of
\* equal support in the order of item_list, and the search enumerates
\* extension items in exactly that order.
CanonicalOrder ==
    pc \in {"mining", "done"} =>
        /\ \A j \in 1..(Len(frequent_items) - 1) :
              \/ frequent_items[j][2] > frequent_items[j + 1][2]
              \/ /\ frequent_items[j][2] = frequent_items[j + 1][2]
                 /\ IndexIn(item_list, frequent_items[j][1])
                       < IndexIn(item_list, frequent_items[j + 1][1])
        /\ EnumeratesInListOrder

\* The search is two calls deep over a list of three frequent items that
\* has two items of equal support and two of different support, and it
\* has built the one-item set of the second item.
CanonicalOrderWitness ==
    /\ pc = "mining"
    /\ Len(frequent_items) = 3
    /\ \E j \in 1..2 : frequent_items[j][2] = frequent_items[j + 1][2]
    /\ \E j \in 1..2 : frequent_items[j][2] > frequent_items[j + 1][2]
    /\ Len(stack) >= 2
    /\ Len(VisitedSingles) >= 2

\* C17: the search builds no itemset twice, and the returned list has no
\* two entries with the same itemset.
GeneratedOnce ==
    /\ \A a, b \in DOMAIN visited : a # b => visited[a] # visited[b]
    /\ pc = "done" =>
          \A a, b \in DOMAIN returned :
              a # b => returned[a].pattern # returned[b].pattern

\* A finished search that built an itemset of three items, which the items
\* taken in another order would give again, and returned several patterns.
GeneratedOnceWitness ==
    /\ pc = "done"
    /\ \E a \in DOMAIN visited : Cardinality(visited[a]) = 3
    /\ Len(visited) > Len(returned)
    /\ Len(returned) >= 2

\* C18: an extension item that leaves the support of a (non-empty) prefix
\* unchanged is merged into the prefix and gets no recursive branch of its
\* own: no active call has a prefix with the support of its caller's prefix.
AbsorptionClaim ==
    (pc = "mining" /\ ValidMinsup /\ NumTransactions >= 1) =>
        \A d \in 3..Len(stack) :
            BruteSupport(stack[d].prefix) # BruteSupport(stack[d - 1].prefix)

-----------------------------------------------------------------------------
(* One call run to its end: the interpreter always takes the next step. *)

NextTerm ==
    \/ StartNoInput
    \/ StartMine
    \/ Skip
    \/ Extend
    \/ Return
    \/ Finish

SearchSteps == Skip \/ Extend \/ Return \/ Finish

\* The guard of StartMine; StartMine changes pc, so this is
\* ENABLED <<StartMine>>_vars.
StartMineEnabled == pc = "call" /\ \E o \in SettledInputs : o[1] = "ok"

\* Weak fairness of each step of the call; for StartMine it is written out
\* with the guard above.
SpecTerm ==
    /\ InitDet
    /\ [][NextTerm]_vars
    /\ WF_vars(StartNoInput)
    /\ ([]<>(~StartMineEnabled) \/ []<><<StartMine>>_vars)
    /\ WF_vars(SearchSteps)

\* The nesting of the recursive calls: no deeper than the number of frequent
\* items, every call with a prefix one item larger than its caller's, and
\* every inner call on a pattern whose support reached the threshold.
BoundedDescent ==
    /\ Len(stack) <= Len(frequent_items) + 1
    /\ \A d \in 2..Len(stack) :
          /\ stack[d - 1].prefix \subseteq stack[d].prefix
          /\ Cardinality(stack[d].prefix) > Cardinality(stack[d - 1].prefix)
          /\ CalculateSupport(stack[d].prefix, transposed_matrix, item_list)
                >= min_support_count

\* C19: the search ends for every input; the recursion is never deeper than
\* the number of frequent items, every recursive call has a strictly larger
\* prefix than its caller, and a branch is extended only while the extended
\* pattern's support is >= minsup_count.
SearchTerminates == <>(pc = "done") /\ []BoundedDescent

\* The search is as deep as the number of frequent items allows, three or
\* more, under a threshold of two transactions.
SearchTerminatesWitness ==
    /\ pc = "mining"
    /\ Len(frequent_items) >= 3
    /\ Len(stack) = Len(frequent_items) + 1
    /\ min_support_count >= 2

-----------------------------------------------------------------------------
\* C20: a call given both the matrix (of two or more entries, with its
\* item_list) and the list of transactions the matrix encodes, under a
\* valid minsup, does not fail.
BothFormatsClaim ==
    (/\ has_matrix
     /\ transactions # <<>>
     /\ Len(arg_matrix) * Len(arg_item_list) >= 2
     /\ ValidMinsup) => pc # "raised"

-----------------------------------------------------------------------------
\* C21: in the item-by-transaction representation the call builds, the
\* entry of item x at transaction i is set iff transaction i contains x,
\* for every item and every transaction; an empty transaction list builds
\* nothing and gives the empty result without error.
VerticalDatabase ==
    /\ Mined =>
          /\ ~has_matrix => Range(item_list) = UNION Range(transactions)
          /\ Len(transposed_matrix) = Len(item_list)
          /\ \A idx \in DOMAIN item_list :
                /\ Len(transposed_matrix[idx]) = NumTransactions
                /\ \A t \in 1..NumTransactions :
                      transposed_matrix[idx][t] = 1
                          <=> item_list[idx] \in InputTransactions[t]
    /\ (~has_matrix /\ transactions = <<>>) =>
          /\ pc # "raised"
          /\ matrix = <<>> /\ item_list = <<>>
          /\ Accumulated = {}
          /\ pc = "done" => returned = <<>>

\* A call on a list of transactions whose sets iterate in reverse order:
\* some item is in one transaction and not in another, and the last item
\* of the list is in the first transaction.
VerticalDatabaseWitness ==
    /\ pc = "mining"
    /\ ~has_matrix
    /\ set_order = Reverse
    /\ Len(item_list) >= 2
    /\ \E idx \in DOMAIN item_list :
          \E t, u \in 1..NumTransactions :
              transposed_matrix[idx][t] = 1 /\ transposed_matrix[idx][u] = 0
    /\ transposed_matrix[Len(item_list)][1] = 1
    /\ transposed_matrix[1][1] = 0

-----------------------------------------------------------------------------
\* get_statistics, lines 363-373 (the fields that do not depend on time).
GetStatistics ==
    [total_closed_patterns |-> Len(closed_patterns),
     min_support_count |-> min_support_count,
     total_transactions |-> total_transactions,
     frequent_items |-> Len(frequent_items)]

\* C22: after a call has returned, also early with an empty list, the
\* instance's closed_patterns is the list the call returned and the
\* statistics are those of that call: the number of patterns it returned,
\* the number of transactions it was given and, for a call on no
\* transactions, no frequent item.
StatisticsClaim ==
    pc = "done" =>
        /\ closed_patterns = returned
        /\ GetStatistics.total_closed_patterns = Len(returned)
        /\ GetStatistics.total_transactions = NumTransactions
        /\ NumTransactions = 0 => GetStatistics.frequent_items = 0

-----------------------------------------------------------------------------
\* get_statistics of the loader, line 211: num_unique_items.
NumUniqueItems == Cardinality(ld_items)

\* C23: while the loader holds transactions, self.items is the union of
\* their items, so the matrix create_transaction_matrix returns has no
\* all-zero column and num_unique_items counts only items that occur in a
\* transaction the loader holds.
ItemsClaim ==
    ld_transactions # <<>> =>
        /\ ld_items = UNION Range(ld_transactions)
        /\ NumUniqueItems = Cardinality(UNION Range(ld_transactions))
        /\ ld_last.op = "matrix" =>
              \A item_idx \in DOMAIN ld_returned[2] :
                  \E trans_idx \in DOMAIN ld_returned[1] :
                      ld_returned[1][trans_idx][item_idx] = 1

\* C24: whatever the loader held before, a load_dataset call that reads its
\* file to the end returns exactly one transaction per non-blank line of
\* that file, in file order, and sets num_transactions to their number.
LoadClaim ==
    ld_last.op = "load" =>
        /\ ld_returned = ld_last.loaded
        /\ ld_num_transactions = Len(ld_last.loaded)

\* C25: a load_dataset call that fails returns the empty list and leaves
\* the loader's transactions as they were before it.
LoadFailureClaim ==
    ld_last.op = "load_failed" =>
        /\ ld_returned = <<>>
        /\ ld_transactions = ld_last.before

====
